---- MODULE Spec2Model ----
(***************************************************************************)
(* Model of fetch_weather.py: one GET against the forecast endpoint, the   *)
(* normalizer build_json with its coercion helpers, and the write of       *)
(* weather.json by main.                                                   *)
(*                                                                         *)
(* JSON / Python values are tagged records.  Numbers are kept in tenths    *)
(* (213 stands for 21.3), so that halves (2.5) and the rounding of         *)
(* _safe_int are exact.  Strings are sequences of one-character strings.   *)
(***************************************************************************)
EXTENDS Integers, Sequences, FiniteSets, TLC

VARIABLES
  raw,       \* the raw response handed to build_json (the parsed body)
  clock,     \* the system clock, in ticks (TicksPerSec ticks to a second)
  outs,      \* what the calls of build_json returned so far, in order
  nowHour,   \* the current hour in the configured timezone, counted from hour 0 of day 0
  arg,       \* the argument of a coercion helper under test
  ret,       \* what the helpers returned for arg
  pc,        \* position of main
  file,      \* weather.json
  stdout,    \* lines printed to standard output
  stderr,    \* lines printed to the diagnostic stream
  exitCode,  \* exit status of the process
  gets,      \* GET attempts made
  opens,     \* times the output file was opened for writing
  out,       \* the document main holds after build_json
  chunks,    \* the serialized chunks json.dump has still to write
  resp,      \* what requests.get came back with
  exc,       \* the exception caught by main, with the stage that raised it
  file0      \* weather.json as it was before the run

coerceVars == <<arg, ret>>
buildVars == <<outs, nowHour>>
mainVars == <<pc, file, stdout, stderr, exitCode, gets, opens, out, chunks,
              resp, exc, file0>>
vars == <<raw, clock, coerceVars, buildVars, mainVars>>

----------------------------------------------------------------------------
(* Bounds of the model *)

MaxTenths == 36      \* numbers tried on the helpers lie in -3.6 .. 3.6
MaxHourlyLen == 26   \* longest hourly array
MaxDailyLen == 9     \* longest daily array
MaxClock == 3        \* the clock is observed for this many ticks
TicksPerSec == 2     \* clock resolution below a second
MaxNow == 30         \* latest current hour tried

(* Program constants *)

KeepHours == 24
KeepDays == 7
PLACE_NAME == "Monticello, AR"
LAT == "33.6289"
LON == "-91.7909"
TIMEZONE == "America/Chicago"
OUTFILE == "weather.json"

----------------------------------------------------------------------------
(* Values *)

JNull == [t |-> "null"]
JNum(n) == [t |-> "num", n |-> n]
JStr(s) == [t |-> "str", s |-> s]
JList(a) == [t |-> "list", a |-> a]
JDict(m) == [t |-> "dict", m |-> m]

PyNone == [t |-> "null"]
PyFloat(n) == [t |-> "float", n |-> n]
PyInt(n) == [t |-> "int", n |-> n]
Raise(e) == [t |-> "raise", e |-> e]
Ok(v) == [t |-> "ok", v |-> v]
IsRaise(v) == v.t = "raise"

EmptyDict == JDict([k \in {} |-> JNull])
EmptyList == JList(<<>>)

----------------------------------------------------------------------------
(* float(x), round(x), and the two safe coercions *)

DigitChars == <<"0", "1", "2", "3", "4", "5", "6", "7", "8", "9">>
IsDigit(c) == \E d \in 1..10 : DigitChars[d] = c
DigitVal(c) == (CHOOSE d \in 1..10 : DigitChars[d] = c) - 1

RECURSIVE DigitsVal(_)
DigitsVal(s) ==
  IF s = <<>> THEN 0
  ELSE 10 * DigitsVal(SubSeq(s, 1, Len(s) - 1)) + DigitVal(s[Len(s)])

AllDigits(s) == s # <<>> /\ \A i \in 1..Len(s) : IsDigit(s[i])

\* float() of an unsigned decimal literal "ddd" or "ddd.d", in tenths; -1 when
\* the text is no such literal
ParseUnsigned(s) ==
  IF AllDigits(s) THEN 10 * DigitsVal(s)
  ELSE IF /\ Len(s) >= 3
          /\ s[Len(s) - 1] = "."
          /\ IsDigit(s[Len(s)])
          /\ AllDigits(SubSeq(s, 1, Len(s) - 2))
       THEN 10 * DigitsVal(SubSeq(s, 1, Len(s) - 2)) + DigitVal(s[Len(s)])
       ELSE -1

\* float(x) of Python for a non-None x
Float(x) ==
  CASE x.t = "num" -> PyFloat(x.n)
    [] x.t = "str" ->
         LET neg == x.s # <<>> /\ x.s[1] = "-"
             body == IF neg THEN SubSeq(x.s, 2, Len(x.s)) ELSE x.s
             u == ParseUnsigned(body)
         IN  IF u < 0 THEN Raise("ValueError")
             ELSE PyFloat(IF neg THEN 0 - u ELSE u)
    [] OTHER -> Raise("TypeError")

\* round(f) of Python 3 on a float: the nearest integer, a tie going to the
\* even neighbour
Round(f) ==
  LET q == f.n \div 10
      r == f.n % 10
  IN  IF r < 5 THEN PyInt(q)
      ELSE IF r > 5 THEN PyInt(q + 1)
      ELSE IF q % 2 = 0 THEN PyInt(q) ELSE PyInt(q + 1)

SafeFloatUnguarded(x) ==
  IF x = JNull THEN PyNone ELSE Float(x)

SafeFloat(x) ==
  IF x = JNull THEN PyNone
  ELSE LET f == Float(x) IN IF IsRaise(f) THEN PyNone ELSE f

SafeInt(x) ==
  IF x = JNull THEN PyNone
  ELSE LET f == Float(x) IN IF IsRaise(f) THEN PyNone ELSE Round(f)

----------------------------------------------------------------------------
(* Inputs of the coercion helpers *)

Str213 == <<"2", "1", ".", "3">>
Str58 == <<"5", "8">>
StrNeg25 == <<"-", "2", ".", "5">>
StrAbc == <<"a", "b", "c">>
StrDots == <<"1", ".", "2", ".", "3">>

NumericStrings == {Str213, Str58, StrNeg25}
OtherStrings == {StrAbc, StrDots, <<>>, <<"-">>, <<".", "5", "x">>}

CoerceInputs ==
  {JNull} \cup {JNum(n) : n \in (0 - MaxTenths)..MaxTenths}
          \cup {JStr(s) : s \in NumericStrings \cup OtherStrings}
          \cup {JList(<<>>), JList(<<JNum(10)>>), EmptyDict}

Pending == [t |-> "pending"]

NoFile == [exists |-> FALSE, content |-> <<>>]
NoExc == [at |-> "none", msg |-> "none"]
NoResp == [kind |-> "none"]

\* main is not running
MainIdle ==
  /\ pc = "idle" /\ file = NoFile /\ file0 = NoFile /\ stdout = <<>> /\ stderr = <<>>
  /\ exitCode = -1 /\ gets = 0 /\ opens = 0 /\ out = JNull /\ chunks = <<>>
  /\ resp = NoResp /\ exc = NoExc

InitCoerce ==
  /\ arg \in CoerceInputs
  /\ ret = [int |-> Pending, float |-> Pending]
  /\ raw = JNull /\ clock = 0 /\ outs = <<>> /\ nowHour = 0
  /\ MainIdle

CallSafeInt ==
  /\ ret.int = Pending
  /\ ret' = [ret EXCEPT !.int = SafeInt(arg)]
  /\ UNCHANGED <<raw, clock, arg, buildVars, mainVars>>

CallSafeFloat ==
  /\ ret.float = Pending
  /\ ret' = [ret EXCEPT !.float = SafeFloat(arg)]
  /\ UNCHANGED <<raw, clock, arg, buildVars, mainVars>>

NextCoerce == CallSafeInt \/ CallSafeFloat

SpecCoerce == InitCoerce /\ [][NextCoerce]_vars

\* C9: for every numeric input, _safe_int returns the nearest integer, an input
\* exactly halfway between two integers going away from zero; null gives null.
C9_HalfAwayFromZero ==
  ret.int # Pending =>
    /\ arg = JNull => ret.int = PyNone
    /\ arg.t = "num" =>
         /\ ret.int.t = "int"
         /\ LET d == 10 * ret.int.n - arg.n
                a == IF d < 0 THEN 0 - d ELSE d
            IN  /\ a <= 5
                /\ a = 5 => (IF arg.n < 0 THEN d < 0 ELSE d > 0)

----------------------------------------------------------------------------
(* build_json *)

NowUtcIsoTicks(now) == [sec |-> now, suffix |-> "+00:00"]

\* datetime.utcnow().isoformat(timespec="seconds") + "+00:00": the clock cut to
\* whole seconds, with the offset text appended
NowUtcIso(now) == [sec |-> now \div TicksPerSec, suffix |-> "+00:00"]

\* d.get(k, dflt) on a mapping d
DictGet(d, k, dflt) == IF k \in DOMAIN d.m THEN d.m[k] ELSE dflt

\* Python truth value of a JSON value
Falsy(v) ==
  \/ v.t = "null"
  \/ v.t = "num" /\ v.n = 0
  \/ v.t = "str" /\ v.s = <<>>
  \/ v.t = "list" /\ v.a = <<>>
  \/ v.t = "dict" /\ DOMAIN v.m = {}

\* x or dflt
PyOr(x, dflt) == IF Falsy(x) THEN dflt ELSE x

\* d.get(k, dflt) or dflt
GetOr(d, k, dflt) == PyOr(DictGet(d, k, dflt), dflt)

HasLen(v) == v.t \in {"list", "str", "dict"}

PyLen(v) ==
  CASE v.t = "list" -> Len(v.a)
    [] v.t = "str" -> Len(v.s)
    [] v.t = "dict" -> Cardinality(DOMAIN v.m)

\* v[i] for a 0-based integer i
PyIndex(v, i) ==
  CASE v.t = "list" -> IF i < Len(v.a) THEN v.a[i + 1] ELSE Raise("IndexError")
    [] v.t = "str" -> IF i < Len(v.s) THEN JStr(<<v.s[i + 1]>>) ELSE Raise("IndexError")
    [] v.t = "dict" -> Raise("KeyError")
    [] OTHER -> Raise("TypeError")

Min(a, b) == IF a < b THEN a ELSE b

Missing == [t |-> "missing"]

ElemShifted(arr, i) ==
  IF ~HasLen(arr) THEN Raise("TypeError")
  ELSE IF i + 1 < PyLen(arr) THEN PyIndex(arr, i + 1) ELSE Missing

\* "arr[i] if i < len(arr)": the element, Missing for the else branch
Elem(arr, i) ==
  IF ~HasLen(arr) THEN Raise("TypeError")
  ELSE IF i < PyLen(arr) THEN PyIndex(arr, i) ELSE Missing

\* _safe_float(arr[i]) if i < len(arr) else None
FloatAt(arr, i) ==
  LET e == Elem(arr, i)
  IN  IF IsRaise(e) THEN e ELSE IF e = Missing THEN PyNone ELSE SafeFloat(e)

\* _safe_int(arr[i]) if i < len(arr) else None
IntAt(arr, i) ==
  LET e == Elem(arr, i)
  IN  IF IsRaise(e) THEN e ELSE IF e = Missing THEN PyNone ELSE SafeInt(e)

Meta(place_name, lat, lon, tz, now) ==
  [place_name |-> place_name, lat |-> lat, lon |-> lon, timezone |-> tz,
   source |-> "open-meteo", generated_utc |-> NowUtcIso(now)]

Current(r) ==
  LET cur == GetOr(r, "current", EmptyDict)
  IN  IF cur.t # "dict" THEN Raise("AttributeError")
      ELSE Ok([temperature_c |-> SafeFloat(DictGet(cur, "temperature_2m", JNull)),
               feels_like_c |-> SafeFloat(DictGet(cur, "apparent_temperature", JNull)),
               humidity_pct |-> SafeInt(DictGet(cur, "relative_humidity_2m", JNull)),
               wind_speed_kmh |-> SafeFloat(DictGet(cur, "wind_speed_10m", JNull)),
               wind_dir_deg |-> SafeInt(DictGet(cur, "wind_direction_10m", JNull)),
               wind_gust_kmh |-> SafeFloat(DictGet(cur, "wind_gusts_10m", JNull)),
               weather_code |-> SafeInt(DictGet(cur, "weather_code", JNull))])

KeepUncapped(times) == PyLen(times)

\* keep = min(24, len(times))
Keep(times) == Min(KeepHours, PyLen(times))

KeepDaily(d_dates) == Min(KeepDays, PyLen(d_dates))

RecordRaises(rec) == \E k \in DOMAIN rec : IsRaise(rec[k])

HourlyRecord(h, times, i) ==
  [time |-> PyIndex(times, i),
   temperature_c |-> FloatAt(GetOr(h, "temperature_2m", EmptyList), i),
   feels_like_c |-> FloatAt(GetOr(h, "apparent_temperature", EmptyList), i),
   precip_prob_pct |-> IntAt(GetOr(h, "precipitation_probability", EmptyList), i),
   wind_speed_kmh |-> FloatAt(GetOr(h, "wind_speed_10m", EmptyList), i),
   wind_dir_deg |-> IntAt(GetOr(h, "wind_direction_10m", EmptyList), i),
   wind_gust_kmh |-> FloatAt(GetOr(h, "wind_gusts_10m", EmptyList), i),
   weather_code |-> IntAt(GetOr(h, "weather_code", EmptyList), i)]

Hourly(r) ==
  LET h == GetOr(r, "hourly", EmptyDict)
  IN  IF h.t # "dict" THEN Raise("AttributeError")
      ELSE LET times == GetOr(h, "time", EmptyList)
           IN  IF ~HasLen(times) THEN Raise("TypeError")
               ELSE LET recs == [i \in 1..Keep(times) |-> HourlyRecord(h, times, i - 1)]
                    IN  IF \E i \in DOMAIN recs : RecordRaises(recs[i])
                        THEN Raise("Exception")
                        ELSE Ok(recs)

DailyRecord(d, d_dates, i) ==
  [date |-> PyIndex(d_dates, i),
   tmax_c |-> FloatAt(GetOr(d, "temperature_2m_max", EmptyList), i),
   tmin_c |-> FloatAt(GetOr(d, "temperature_2m_min", EmptyList), i),
   weather_code |-> IntAt(GetOr(d, "weather_code", EmptyList), i),
   precip_prob_pct |-> IntAt(GetOr(d, "precipitation_probability_max", EmptyList), i)]

Daily(r) ==
  LET d == GetOr(r, "daily", EmptyDict)
  IN  IF d.t # "dict" THEN Raise("AttributeError")
      ELSE LET d_dates == GetOr(d, "time", EmptyList)
           IN  IF ~HasLen(d_dates) THEN Raise("TypeError")
               ELSE LET recs == [i \in 1..KeepDaily(d_dates) |-> DailyRecord(d, d_dates, i - 1)]
                    IN  IF \E i \in DOMAIN recs : RecordRaises(recs[i])
                        THEN Raise("Exception")
                        ELSE Ok(recs)

\* build_json(raw, place_name, lat, lon, tz), called when the clock reads now:
\* the document, or the exception a malformed response makes it raise
BuildJson(r, place_name, lat, lon, tz, now) ==
  IF r.t # "dict" THEN Raise("AttributeError")
  ELSE LET current == Current(r)
           hourly == Hourly(r)
           daily == Daily(r)
       IN  IF IsRaise(current) THEN current
           ELSE IF IsRaise(hourly) THEN hourly
           ELSE IF IsRaise(daily) THEN daily
           ELSE [t |-> "doc",
                 meta |-> Meta(place_name, lat, lon, tz, now),
                 current |-> current.v, hourly |-> hourly.v, daily |-> daily.v]

----------------------------------------------------------------------------
(* Raw responses tried on build_json *)

CurrentKeys == {"temperature_2m", "apparent_temperature", "relative_humidity_2m",
                "wind_speed_10m", "wind_direction_10m", "wind_gusts_10m",
                "weather_code"}
HourlyKeys == {"temperature_2m", "apparent_temperature", "precipitation_probability",
               "wind_speed_10m", "wind_direction_10m", "wind_gusts_10m",
               "weather_code"}
DailyKeys == {"temperature_2m_max", "temperature_2m_min",
              "precipitation_probability_max", "weather_code"}

\* a key the response does not carry
Absent == [t |-> "absent"]

\* the mapping that carries the keys of f whose value is not Absent
MkDict(f) == JDict([k \in {j \in DOMAIN f : f[j] # Absent} |-> f[k]])

\* element values a measurement array may hold: numbers, null, numeric and
\* non-numeric strings, a nested list
Vals == <<JNum(213), JNull, JStr(Str58), JStr(StrAbc), JNum(-25),
          JList(<<JNum(10)>>), JNum(716), JStr(Str213), JNum(25)>>

ValAt(s) == Vals[(s % Len(Vals)) + 1]

\* an array of n elements, the values taken in turn from position s on
MkArr(n, s) == JList([i \in 1..n |-> ValAt(s + i - 1)])

\* local time string like "2026-01-28T17:00": hour a counted from hour 0 of day 0
TimeLabel(a) == [t |-> "time", day |-> a \div 24, hour |-> a % 24]

\* the hourly time array of n entries from hour start on
Times(start, n) == JList([i \in 1..n |-> TimeLabel(start + i - 1)])

\* the daily time array of n dates from day 0 on
Dates(n) == JList([i \in 1..n |-> [t |-> "date", day |-> i - 1]])

Section(keys, time, focus, a, b) ==
  MkDict([k \in keys \cup {"time"} |->
            IF k = "time" THEN time ELSE IF k = focus THEN a ELSE b])

\* hourly sections: every length of the time array against a few measurement
\* arrays, and every length of one measurement array against a few time arrays
HourlySections ==
  {Absent, JNull, EmptyDict}
  \cup {Section(HourlyKeys, time, focus, a, b) :
          time \in {Absent, JNull} \cup {Times(0, n) : n \in 0..MaxHourlyLen},
          focus \in HourlyKeys,
          a \in {Absent, JNull, MkArr(2, 4), MkArr(MaxHourlyLen, 0)},
          b \in {Absent, MkArr(MaxHourlyLen, 2)}}
  \cup {Section(HourlyKeys, time, focus, a, b) :
          time \in {Times(0, KeepHours - 1), Times(0, MaxHourlyLen)},
          focus \in HourlyKeys,
          a \in {MkArr(n, s) : n \in 0..MaxHourlyLen, s \in {0, 4}},
          b \in {MkArr(MaxHourlyLen, 2)}}

DailySections ==
  {Absent, JNull, EmptyDict}
  \cup {Section(DailyKeys, time, focus, a, b) :
          time \in {Absent, JNull} \cup {Dates(n) : n \in 0..MaxDailyLen},
          focus \in DailyKeys,
          a \in {Absent, JNull} \cup {MkArr(n, s) : n \in 0..MaxDailyLen, s \in {0, 4}},
          b \in {Absent, MkArr(MaxDailyLen, 2)}}

CurrentSections ==
  {Absent, JNull, EmptyDict} \cup
  {MkDict([k \in CurrentKeys |-> IF k = focus THEN v ELSE b]) :
     focus \in CurrentKeys,
     v \in CoerceInputs \cup {Absent},
     b \in {Absent, JNum(213), JStr(Str58)}}

DefaultCurrent == MkDict([k \in CurrentKeys |-> JNum(213)])
DefaultHourly ==
  Section(HourlyKeys, Times(0, MaxHourlyLen), "weather_code",
          MkArr(MaxHourlyLen, 0), MkArr(MaxHourlyLen, 2))
DefaultDaily ==
  Section(DailyKeys, Dates(MaxDailyLen), "weather_code",
          MkArr(MaxDailyLen, 0), MkArr(MaxDailyLen, 2))

Response(current, hourly, daily) ==
  MkDict([k \in {"current", "hourly", "daily"} |->
            IF k = "current" THEN current ELSE IF k = "hourly" THEN hourly ELSE daily])

\* raw responses of the data model: each section a mapping, null or absent,
\* each array a list, null or absent
RawResponses ==
  {Response(DefaultCurrent, h, DefaultDaily) : h \in HourlySections}
  \cup {Response(DefaultCurrent, DefaultHourly, d) : d \in DailySections}
  \cup {Response(c, DefaultHourly, DefaultDaily) : c \in CurrentSections}

----------------------------------------------------------------------------
(* Calls of build_json *)

CoerceIdle == arg = JNull /\ ret = [int |-> Pending, float |-> Pending]

\* one call build_json(raw, PLACE_NAME, LAT, LON, TIMEZONE); raw is only read
CallBuild ==
  /\ outs' = Append(outs, [at |-> clock, arg |-> raw,
                           res |-> BuildJson(raw, PLACE_NAME, LAT, LON, TIMEZONE, clock)])
  /\ UNCHANGED <<raw, clock, nowHour, coerceVars, mainVars>>

BuildOnce == outs = <<>> /\ CallBuild

InitBuild ==
  /\ raw \in RawResponses
  /\ clock = 0 /\ outs = <<>> /\ nowHour = 0
  /\ CoerceIdle /\ MainIdle

NextBuild == BuildOnce

SpecBuild == InitBuild /\ [][NextBuild]_vars

----------------------------------------------------------------------------
(* What the claims about build_json are stated with *)

\* the list the raw response carries at section sec, key: empty when the
\* section or the key is absent or null
RawSeq(r, sec, key) ==
  IF sec \notin DOMAIN r.m THEN <<>>
  ELSE LET sect == r.m[sec]
       IN  IF sect.t # "dict" THEN <<>>
           ELSE IF key \notin DOMAIN sect.m THEN <<>>
           ELSE IF sect.m[key].t # "list" THEN <<>>
           ELSE sect.m[key].a

\* the scalar the raw response carries at current.key, null when absent
RawScalar(r, key) ==
  IF "current" \notin DOMAIN r.m THEN JNull
  ELSE LET sect == r.m["current"]
       IN  IF sect.t # "dict" THEN JNull
           ELSE IF key \notin DOMAIN sect.m THEN JNull
           ELSE sect.m[key]

\* the raw values that denote a number, and the number (in tenths)
Numeric(v) == v.t = "num" \/ (v.t = "str" /\ v.s \in NumericStrings)
Denoted(v) ==
  CASE v.t = "num" -> v.n
    [] v = JStr(Str213) -> 213
    [] v = JStr(Str58) -> 580
    [] v = JStr(StrNeg25) -> -25

\* o is the conversion of the raw value v that a field of the given kind holds
Converted(kind, v, o) ==
  IF ~Numeric(v) THEN o = PyNone
  ELSE IF kind = "float" THEN o = PyFloat(Denoted(v))
  ELSE /\ o.t = "int"
       /\ 10 * o.n - Denoted(v) <= 5
       /\ Denoted(v) - 10 * o.n <= 5

\* output field, raw field, kind
CurrentFields ==
  {<<"temperature_c", "temperature_2m", "float">>,
   <<"feels_like_c", "apparent_temperature", "float">>,
   <<"humidity_pct", "relative_humidity_2m", "int">>,
   <<"wind_speed_kmh", "wind_speed_10m", "float">>,
   <<"wind_dir_deg", "wind_direction_10m", "int">>,
   <<"wind_gust_kmh", "wind_gusts_10m", "float">>,
   <<"weather_code", "weather_code", "int">>}
HourlyFields ==
  {<<"temperature_c", "temperature_2m", "float">>,
   <<"feels_like_c", "apparent_temperature", "float">>,
   <<"precip_prob_pct", "precipitation_probability", "int">>,
   <<"wind_speed_kmh", "wind_speed_10m", "float">>,
   <<"wind_dir_deg", "wind_direction_10m", "int">>,
   <<"wind_gust_kmh", "wind_gusts_10m", "float">>,
   <<"weather_code", "weather_code", "int">>}
DailyFields ==
  {<<"tmax_c", "temperature_2m_max", "float">>,
   <<"tmin_c", "temperature_2m_min", "float">>,
   <<"weather_code", "weather_code", "int">>,
   <<"precip_prob_pct", "precipitation_probability_max", "int">>}

Calls == {outs[j] : j \in DOMAIN outs}

\* C1: build_json returns without raising, with exactly min(24, len(hourly.time))
\* hourly records and exactly min(7, len(daily.time)) daily records, an absent,
\* null or empty section or time array counting as length 0.
C1_Lengths ==
  \A c \in Calls :
    /\ c.res.t = "doc"
    /\ Len(c.res.hourly) = Min(24, Len(RawSeq(c.arg, "hourly", "time")))
    /\ Len(c.res.daily) = Min(7, Len(RawSeq(c.arg, "daily", "time")))

C1_Witness ==
  \E c \in Calls :
    /\ Len(RawSeq(c.arg, "hourly", "time")) > 24
    /\ Len(RawSeq(c.arg, "daily", "time")) > 7
    /\ c.res.t = "doc"
    /\ Len(c.res.hourly) = 24
    /\ Len(c.res.daily) = 7

\* records recs are aligned with the raw section sec: record i carries the
\* label time[i] and, per field, the conversion of the field's own element i,
\* or null past the end of the field's array
Aligned(r, sec, label, fields, recs) ==
  \A i \in DOMAIN recs :
    /\ recs[i][label] = RawSeq(r, sec, "time")[i]
    /\ \A f \in fields :
         LET a == RawSeq(r, sec, f[2])
         IN  IF i <= Len(a) THEN Converted(f[3], a[i], recs[i][f[1]])
             ELSE recs[i][f[1]] = PyNone

\* C2: at every emitted position i of the hourly and of the daily output the
\* label is raw time[i] and each measurement field, independently, holds the
\* conversion of its own raw element i when i is within its own array, and null
\* otherwise; a short measurement array raises nothing and shifts nothing.
C2_Alignment ==
  \A c \in Calls :
    /\ c.res.t = "doc"
    /\ Aligned(c.arg, "hourly", "time", HourlyFields, c.res.hourly)
    /\ Aligned(c.arg, "daily", "date", DailyFields, c.res.daily)

C2_Witness ==
  \E c \in Calls :
    LET a == RawSeq(c.arg, "hourly", "wind_speed_10m")
    IN  /\ c.res.t = "doc"
        /\ Len(a) >= 2
        /\ Len(a) < Len(c.res.hourly)
        /\ a[Len(a)] = JNum(213)
        /\ c.res.hourly[Len(a)].wind_speed_kmh = PyFloat(213)
        /\ c.res.hourly[Len(a) + 1].wind_speed_kmh = PyNone
        /\ c.res.hourly[Len(a) + 1].temperature_c # PyNone

\* C7: whatever the raw element values (null, number, numeric or non-numeric
\* string, nested list or mapping), build_json returns a document in which each
\* current field is the conversion of its raw value or null, and every hourly
\* and daily measurement field is a float, an integer or null according to its
\* kind: never a string, never a raised exception.
C7_NumericOrNull ==
  \A c \in Calls :
    /\ c.res.t = "doc"
    /\ \A f \in CurrentFields :
         Converted(f[3], RawScalar(c.arg, f[2]), c.res.current[f[1]])
    /\ \A i \in DOMAIN c.res.hourly : \A f \in HourlyFields :
         c.res.hourly[i][f[1]].t \in {f[3], "null"}
    /\ \A i \in DOMAIN c.res.daily : \A f \in DailyFields :
         c.res.daily[i][f[1]].t \in {f[3], "null"}

C7_Witness ==
  \E c \in Calls :
    /\ RawScalar(c.arg, "temperature_2m") = JStr(StrAbc)
    /\ RawScalar(c.arg, "relative_humidity_2m") = JStr(Str58)
    /\ c.res.t = "doc"
    /\ c.res.current.temperature_c = PyNone
    /\ c.res.current.humidity_pct = PyInt(58)
    /\ \E i \in DOMAIN c.res.hourly :
         /\ RawSeq(c.arg, "hourly", "temperature_2m")[i].t = "list"
         /\ c.res.hourly[i].temperature_c = PyNone

----------------------------------------------------------------------------
(* Two calls of build_json on the same response while the clock runs *)

PureInputs ==
  {Response(DefaultCurrent, DefaultHourly, DefaultDaily),
   Response(Absent, Absent, Absent),
   Response(JNull, EmptyDict, DefaultDaily),
   Response(DefaultCurrent, Section(HourlyKeys, Times(0, 3), "weather_code",
                                    MkArr(2, 0), MkArr(3, 2)), JNull)}

Tick ==
  /\ clock < MaxClock
  /\ clock' = clock + 1
  /\ UNCHANGED <<raw, coerceVars, buildVars, mainVars>>

BuildAgain == Len(outs) = 1 /\ CallBuild

InitPure ==
  /\ raw \in PureInputs
  /\ clock = 0 /\ outs = <<>> /\ nowHour = 0
  /\ CoerceIdle /\ MainIdle

NextPure == Tick \/ BuildOnce \/ BuildAgain

SpecPure == InitPure /\ [][NextPure]_vars

\* C8 as stated: two calls of build_json with identical arguments return
\* identical documents, every field of meta included, and raw is not modified.
C8_Pure ==
  \A c1, c2 \in Calls :
    /\ c1.arg = raw
    /\ c1.arg = c2.arg => c1.res = c2.res

\* C8 as amended: two calls with identical arguments return documents that
\* agree in every field except meta.generated_utc, which is the clock at the
\* time of the call cut to whole seconds and followed by "+00:00"; raw is not
\* modified.
C8_PureButTimestamp ==
  \A c1, c2 \in Calls :
    /\ c1.arg = raw
    /\ c1.res.t = "doc"
    /\ c1.res.meta.generated_utc = [sec |-> c1.at \div TicksPerSec, suffix |-> "+00:00"]
    /\ c1.arg = c2.arg =>
         [c1.res EXCEPT !.meta.generated_utc = "any"] =
         [c2.res EXCEPT !.meta.generated_utc = "any"]

C8_Witness ==
  /\ Len(outs) = 2
  /\ outs[1].arg = outs[2].arg
  /\ outs[1].at % TicksPerSec # 0
  /\ outs[1].res.meta.generated_utc # outs[2].res.meta.generated_utc
  /\ outs[1].res.hourly = outs[2].res.hourly
  /\ Len(outs[1].res.hourly) > 0

----------------------------------------------------------------------------
(* build_json on the hourly series the endpoint returns *)

ForecastDays == 7

\* the response at local hour now: forecast_days days of hourly entries from
\* hour start on, every measurement array as long as the time array
HourlySeries(start) ==
  Section(HourlyKeys, Times(start, 24 * ForecastDays), "weather_code",
          MkArr(24 * ForecastDays, 0), MkArr(24 * ForecastDays, 2))

InitHours ==
  /\ nowHour \in 0..MaxNow
  /\ \E start \in 0..nowHour :
       raw = Response(DefaultCurrent, HourlySeries(start), DefaultDaily)
  /\ clock = 0 /\ outs = <<>>
  /\ CoerceIdle /\ MainIdle

NextHours == BuildOnce

SpecHours == InitHours /\ [][NextHours]_vars

\* C10: given an hourly series that starts at or before the current hour, the
\* records build_json keeps are the next 24 hours from now: no label is earlier
\* than the current hour, and the labels are consecutive hours from the current
\* hour on.
C10_NextHoursFromNow ==
  \A c \in Calls :
    /\ c.res.t = "doc"
    /\ \A i \in DOMAIN c.res.hourly :
         c.res.hourly[i].time = TimeLabel(nowHour + i - 1)

----------------------------------------------------------------------------
(* main: fetch_open_meteo, build_json, the write of weather.json *)

\* the body of a response that is no JSON text
NotJson == [t |-> "invalid"]

\* a body that is JSON but no mapping
ListBody == JList(<<JNum(10)>>)

\* the error body the endpoint sends with a 4xx status
ErrorBody == MkDict([k \in {"error", "reason"} |-> JStr(StrAbc)])

\* bodies build_json accepts
GoodBodies ==
  {Response(DefaultCurrent,
            Section(HourlyKeys, Times(0, 2), "weather_code", MkArr(2, 0), MkArr(2, 2)),
            Section(DailyKeys, Dates(2), "weather_code", MkArr(1, 0), MkArr(2, 2))),
   Response(JNull,
            Section(HourlyKeys, Times(0, 3), "weather_code", MkArr(2, 0), MkArr(3, 2)),
            Absent),
   Response(Absent, Absent, Absent)}

\* what requests.get can come back with: a transport error, or a response
Responses ==
  {[kind |-> "ConnectionError"], [kind |-> "Timeout"]}
  \cup {[kind |-> "http", status |-> 200, body |-> b] :
          b \in GoodBodies \cup {ListBody, NotJson}}
  \cup {[kind |-> "http", status |-> st, body |-> b] :
          st \in {404, 500}, b \in {ErrorBody, NotJson}}

\* json.dump writes the document to the file piece by piece
Serialize(doc) ==
  <<[key |-> "meta", val |-> doc.meta], [key |-> "current", val |-> doc.current],
    [key |-> "hourly", val |-> doc.hourly], [key |-> "daily", val |-> doc.daily]>>

OldFile ==
  [exists |-> TRUE,
   content |-> Serialize(BuildJson(Response(DefaultCurrent, Absent, Absent),
                                   PLACE_NAME, LAT, LON, TIMEZONE, 0))]

\* except Exception as e: the exception is caught by main's handler
Caught(stage, msg) ==
  /\ exc' = [at |-> stage, msg |-> msg]
  /\ pc' = "except"

StatusRaisesOnly5xx(status) == status >= 500

\* raise_for_status raises on a 4xx or 5xx status
StatusRaises(status) == status >= 400

InitMain ==
  /\ pc = "get"
  /\ file0 \in {NoFile, OldFile}
  /\ file = file0
  /\ clock \in 0..MaxClock
  /\ raw = JNull /\ out = JNull /\ chunks = <<>>
  /\ resp = NoResp /\ exc = NoExc
  /\ stdout = <<>> /\ stderr = <<>> /\ exitCode = -1 /\ gets = 0 /\ opens = 0
  /\ outs = <<>> /\ nowHour = 0
  /\ CoerceIdle

GetRetrying ==
  /\ pc = "get"
  /\ gets' = gets + 1
  /\ \E r \in Responses :
       /\ resp' = r
       /\ IF r.kind = "http" THEN pc' = "status" /\ exc' = exc
          ELSE IF gets = 0 THEN pc' = "get" /\ exc' = exc
          ELSE Caught("fetch", r.kind)
  /\ UNCHANGED <<raw, clock, coerceVars, buildVars, file, stdout, stderr,
                 exitCode, opens, out, chunks, file0>>

\* r = requests.get(url, params=params, timeout=25)
Get ==
  /\ pc = "get"
  /\ gets' = gets + 1
  /\ \E r \in Responses :
       /\ resp' = r
       /\ IF r.kind = "http" THEN pc' = "status" /\ exc' = exc
          ELSE Caught("fetch", r.kind)
  /\ UNCHANGED <<raw, clock, coerceVars, buildVars, file, stdout, stderr,
                 exitCode, opens, out, chunks, file0>>

\* r.raise_for_status()
RaiseForStatus ==
  /\ pc = "status"
  /\ IF StatusRaises(resp.status) THEN Caught("fetch", "HTTPError")
     ELSE pc' = "json" /\ exc' = exc
  /\ UNCHANGED <<raw, clock, coerceVars, buildVars, file, stdout, stderr,
                 exitCode, gets, opens, out, chunks, resp, file0>>

\* return r.json()
ParseBody ==
  /\ pc = "json"
  /\ IF resp.body = NotJson
     THEN Caught("fetch", "JSONDecodeError") /\ raw' = raw
     ELSE raw' = resp.body /\ pc' = "build" /\ exc' = exc
  /\ UNCHANGED <<clock, coerceVars, buildVars, file, stdout, stderr,
                 exitCode, gets, opens, out, chunks, resp, file0>>

NormalizeSwallowing ==
  /\ pc = "build"
  /\ out' = BuildJson(raw, PLACE_NAME, LAT, LON, TIMEZONE, clock)
  /\ pc' = "open"
  /\ UNCHANGED <<raw, clock, coerceVars, buildVars, file, stdout, stderr,
                 exitCode, gets, opens, chunks, resp, exc, file0>>

\* out = build_json(raw, PLACE_NAME, LAT, LON, TIMEZONE)
Normalize ==
  /\ pc = "build"
  /\ LET r == BuildJson(raw, PLACE_NAME, LAT, LON, TIMEZONE, clock)
     IN  IF IsRaise(r) THEN Caught("normalize", r.e) /\ out' = out
         ELSE out' = r /\ pc' = "open" /\ exc' = exc
  /\ UNCHANGED <<raw, clock, coerceVars, buildVars, file, stdout, stderr,
                 exitCode, gets, opens, chunks, resp, file0>>

\* open(OUTFILE, "w", encoding="utf-8"): the file is created or cut to nothing,
\* or the open fails and the file is left alone
OpenFile ==
  /\ pc = "open"
  /\ opens' = opens + 1
  /\ \/ /\ file' = [exists |-> TRUE, content |-> <<>>]
        /\ chunks' = Serialize(out)
        /\ pc' = "dump" /\ exc' = exc
     \/ /\ Caught("write", "OSError")
        /\ UNCHANGED <<file, chunks>>
  /\ UNCHANGED <<raw, clock, coerceVars, buildVars, stdout, stderr,
                 exitCode, gets, out, resp, file0>>

\* json.dump(out, f, ensure_ascii=False, indent=2): the next piece reaches the
\* file, or the write fails and what was written stays
DumpChunk ==
  /\ pc = "dump"
  /\ chunks # <<>>
  /\ \/ /\ file' = [file EXCEPT !.content = Append(@, Head(chunks))]
        /\ chunks' = Tail(chunks)
        /\ UNCHANGED <<pc, exc>>
     \/ /\ Caught("write", "OSError")
        /\ UNCHANGED <<file, chunks>>
  /\ UNCHANGED <<raw, clock, coerceVars, buildVars, stdout, stderr,
                 exitCode, gets, opens, out, resp, file0>>

\* the with block ends: the file is closed
CloseFile ==
  /\ pc = "dump"
  /\ chunks = <<>>
  /\ pc' = "print"
  /\ UNCHANGED <<raw, clock, coerceVars, buildVars, file, stdout, stderr,
                 exitCode, gets, opens, out, chunks, resp, exc, file0>>

\* print(f"Wrote {OUTFILE}"), which raises when standard output is closed
PrintWrote ==
  /\ pc = "print"
  /\ \/ /\ stdout' = Append(stdout, <<"Wrote ", OUTFILE>>)
        /\ pc' = "return" /\ exc' = exc
     \/ /\ Caught("print", "ValueError")
        /\ stdout' = stdout
  /\ UNCHANGED <<raw, clock, coerceVars, buildVars, file, stderr,
                 exitCode, gets, opens, out, chunks, resp, file0>>

\* main returns and the interpreter exits with status 0
Return ==
  /\ pc = "return"
  /\ exitCode' = 0
  /\ pc' = "done"
  /\ UNCHANGED <<raw, clock, coerceVars, buildVars, file, stdout, stderr,
                 gets, opens, out, chunks, resp, exc, file0>>

ExceptExitZero ==
  /\ pc = "except"
  /\ stderr' = Append(stderr, <<"ERROR: ", exc.msg>>)
  /\ exitCode' = 0
  /\ pc' = "done"
  /\ UNCHANGED <<raw, clock, coerceVars, buildVars, file, stdout,
                 gets, opens, out, chunks, resp, exc, file0>>

\* print(f"ERROR: {e}", file=sys.stderr); sys.exit(1)
Except ==
  /\ pc = "except"
  /\ stderr' = Append(stderr, <<"ERROR: ", exc.msg>>)
  /\ exitCode' = 1
  /\ pc' = "done"
  /\ UNCHANGED <<raw, clock, coerceVars, buildVars, file, stdout,
                 gets, opens, out, chunks, resp, exc, file0>>

NextMain ==
  \/ Get \/ RaiseForStatus \/ ParseBody
  \/ Normalize
  \/ OpenFile \/ DumpChunk \/ CloseFile
  \/ PrintWrote \/ Return
  \/ Except

SpecMain == InitMain /\ [][NextMain]_vars

----------------------------------------------------------------------------
(* Claims about main *)

\* the GET failed: a transport error, a timeout, or a 4xx/5xx status
FetchFailed ==
  \/ resp.kind \in {"ConnectionError", "Timeout"}
  \/ resp.kind = "http" /\ resp.status >= 400

\* weather.json holds the whole new document
Written == out.t = "doc" /\ file = [exists |-> TRUE, content |-> Serialize(out)]

\* the stages that ran, as far as the state shows
Fetched == raw # JNull
Normalized == out # JNull
WriteBegun == opens > 0

\* C3: when the fetch fails (network error, timeout, HTTP 4xx/5xx) the process
\* exits non-zero and never opens or writes the output file: weather.json is
\* exactly as it was before the run.
C3_FetchFailureLeavesFile ==
  (FetchFailed /\ pc # "status") =>
    /\ opens = 0
    /\ file = file0
    /\ exitCode # 0
    /\ pc \in {"except", "done"}
    /\ pc = "done" => exitCode = 1

C3_Witness ==
  /\ pc = "done"
  /\ resp.kind = "http" /\ resp.status = 500
  /\ exitCode = 1
  /\ file0 = OldFile /\ file = OldFile /\ opens = 0

\* C4 as stated: in every run that ends with a non-zero status, whichever stage
\* failed (fetch, normalize or the write itself), weather.json holds no
\* truncated or partial document.
C4_NoPartialOnFailure ==
  exitCode = 1 => (file = file0 \/ Written)

\* C4 as amended: the write begins only after fetch and normalize succeeded, so
\* a run that fails in fetch or normalize leaves weather.json exactly as it
\* was; weather.json is cut short or partial at a non-zero exit only when the
\* write itself failed.
C4_NoPartialUnlessWriteFails ==
  /\ (pc \in {"open", "dump"} \/ WriteBegun \/ file # file0) =>
       (out.t = "doc" /\ Fetched /\ exc.at \notin {"fetch", "normalize"})
  /\ (exitCode = 1 /\ exc.at \in {"fetch", "normalize"}) => file = file0
  /\ (exitCode = 1 /\ file # file0 /\ ~Written) => exc.at = "write"

C4_Witness ==
  /\ exitCode = 1
  /\ exc.at = "normalize"
  /\ file0 = OldFile /\ file = OldFile

\* how a finished run of main looks
Outcome ==
  \/ /\ exitCode = 0
     /\ exc = NoExc
     /\ Fetched /\ Normalized /\ Written
     /\ stdout = <<(<<"Wrote ", OUTFILE>>)>>
     /\ stderr = <<>>
  \/ /\ exitCode = 1
     /\ exc.at \in {"fetch", "normalize", "write", "print"}
     /\ stderr = <<(<<"ERROR: ", exc.msg>>)>>
     /\ stdout = <<>>
     /\ exc.at = "fetch" => ~Fetched /\ ~Normalized /\ ~WriteBegun
     /\ exc.at = "normalize" => Fetched /\ ~Normalized /\ ~WriteBegun
     /\ exc.at = "write" => Fetched /\ Normalized /\ WriteBegun /\ ~Written
     /\ exc.at = "print" => Written

\* the stages run in the order fetch, normalize, write, print
InOrder ==
  /\ Normalized => Fetched
  /\ WriteBegun => (Normalized /\ out.t = "doc")
  /\ stdout # <<>> => Written
  /\ exitCode = 0 => Written

\* a bound on the steps main has still to take
StepsLeft ==
  CASE pc = "get" -> 20
    [] pc = "status" -> 19
    [] pc = "json" -> 18
    [] pc = "build" -> 17
    [] pc = "open" -> 16
    [] pc = "dump" -> 10 + Len(chunks)
    [] pc = "print" -> 9
    [] pc = "return" -> 8
    [] pc = "except" -> 1
    [] OTHER -> 0

\* main has a statement to run (build_json is a call that always returns or
\* raises)
CanStep ==
  \/ pc = "build"
  \/ ENABLED (Get \/ RaiseForStatus \/ ParseBody \/ OpenFile \/ DumpChunk
              \/ CloseFile \/ PrintWrote \/ Return \/ Except)

\* C5: every run of main terminates in exactly one of two outcomes: fetch,
\* normalize and write done in that order and exit status 0, or an abort at the
\* first stage that raises, no later stage run, 'ERROR: <message>' on the
\* diagnostic stream and exit status 1; status 0 only if the write completed,
\* and no 'Wrote' message on a failing run.
\* Termination is stated as: a run that is not done can always take a step,
\* and every step lowers StepsLeft.
C5_TwoOutcomes ==
  /\ [](InOrder /\ (pc = "done" => Outcome) /\ (exitCode # -1 => pc = "done"))
  /\ [](pc = "done" \/ CanStep)
  /\ [][StepsLeft' < StepsLeft]_vars

C5_Witness ==
  /\ pc = "done"
  /\ exitCode = 1
  /\ exc.at = "normalize"
  /\ stderr = <<(<<"ERROR: ", "AttributeError">>)>>
  /\ opens = 0 /\ stdout = <<>>

\* C6 as stated: every invocation performs exactly one GET attempt and exactly
\* one filesystem write of the output file.
C6_OneGetOneWrite ==
  pc = "done" => (gets = 1 /\ opens = 1)

\* C6 as amended: every invocation performs exactly one GET attempt, never
\* retried, and at most one filesystem write of the output file: exactly one
\* when fetch and normalize succeeded, none when either failed.
C6_OneGetAtMostOneWrite ==
  /\ gets <= 1
  /\ opens <= 1
  /\ pc # "get" => gets = 1
  /\ pc = "done" =>
       /\ gets = 1
       /\ opens = 1 <=> (Fetched /\ out.t = "doc")
       /\ opens = 0 <=> exc.at \in {"fetch", "normalize"}

C6_Witness ==
  /\ pc = "done"
  /\ resp.kind = "Timeout"
  /\ gets = 1
  /\ opens = 0

====
